---- MODULE Spec2Model ----
(***************************************************************************)
(* Content classification of an EPUB spine (obsidiant, src/src/main.ts).   *)
(*                                                                         *)
(* A document of the archive is represented by the features that the       *)
(* regular expressions and substring tests of analyzeContent and           *)
(* extractInternalChapters read from its markup.  classifyEpubContent is   *)
(* a state machine: one action per block of the function, in source order. *)
(***************************************************************************)
EXTENDS Integers, Sequences, FiniteSets, TLC

(* ---------------------------------------------------------------------- *)
(* Bounds                                                                  *)
(* ---------------------------------------------------------------------- *)
MaxSpine == 3

(* ---------------------------------------------------------------------- *)
(* JavaScript values                                                       *)
(* ---------------------------------------------------------------------- *)
\* `undefined` in a number-typed optional field
undefined == 0 - 1
\* parseInt of a string that does not start with digits
NaN == 0 - 2
\* `undefined` in a string-typed optional field (falsy, like "")
NoTitle == ""

Truthy(s) == s # NoTitle

NumStr(n) == IF n = NaN THEN "NaN" ELSE ToString(n)

Max2(a, b) == IF a > b THEN a ELSE b
Min2(a, b) == IF a < b THEN a ELSE b

SetMin(S) == CHOOSE x \in S : \A y \in S : x <= y
SetMax(S) == CHOOSE x \in S : \A y \in S : x >= y

RECURSIVE SeqSum(_)
SeqSum(s) == IF s = <<>> THEN 0 ELSE Head(s) + SeqSum(Tail(s))

RECURSIVE SelectIdx(_, _, _)
\* the indices of s, in order, whose element satisfies Test
SelectIdx(s, Test(_), from) ==
    IF from > Len(s) THEN <<>>
    ELSE IF Test(s[from]) THEN <<from>> \o SelectIdx(s, Test, from + 1)
    ELSE SelectIdx(s, Test, from + 1)

\* one element is removed whatever the count
Splice_OneOnly(s, start, count) ==
    [k \in 1..(Len(s) - Min2(1, Len(s) - start)) |->
        IF k <= start THEN s[k] ELSE s[k + Min2(1, Len(s) - start)]]

\* Array.prototype.splice(start, count) on a 0-based start
Splice(s, start, count) ==
    [k \in 1..(Len(s) - Min2(count, Len(s) - start)) |->
        IF k <= start THEN s[k] ELSE s[k + Min2(count, Len(s) - start)]]

(* ---------------------------------------------------------------------- *)
(* Documents: the markup features the code tests                           *)
(* ---------------------------------------------------------------------- *)
\* A heading <h1 class="level1_title">text</h1> followed by `words` words of
\* body.  form is the shape of the heading text:
\*   "bare"     "N."           "numdot"  "N. Title"      "num"  "N Title"
\*   "chapitre" "Chapitre N"   "named"   a title without digits
HeadingText(sec) ==
    CASE sec.form = "bare"     -> ToString(sec.num) \o "."
      [] sec.form = "numdot"   -> ToString(sec.num) \o ". Title"
      [] sec.form = "num"      -> ToString(sec.num) \o " Title"
      [] sec.form = "chapitre" -> "Chapitre " \o ToString(sec.num)
      [] OTHER                 -> "Chapitre Trois"

HeadingWords(sec) == IF sec.form = "bare" THEN 1 ELSE 2

Sec(form, num, words) == [form |-> form, num |-> num, words |-> words]

SectionWords(sections) ==
    SeqSum([k \in 1..Len(sections) |-> HeadingWords(sections[k]) + sections[k].words])

\* A document without any recognised feature.
\*   archived    an entry of the archive has a fileName that includes the href
\*   fileIdx     N of a fileName cNN_part_cutM.xhtml, undefined otherwise
\*   chapClass   class of the chapter-number <h1> ("chapn", "chap_n" or "")
\*   chapForm    its text: "bare" (31), "bracket" ([1]) or "other"
\*   headerText  text of the first <h1>..<h3>, headerNum the first number in it
\*   partNumCls  number in <h1 class="part_number">, undefined when absent
\*   partTitleCls text of <h2 class="part_title">, "" when absent
\*   opening     first word of the text, lower case, when it is one the code
\*               looks for
\*   hasH1       the markup contains "<h1"
\*   keywords    substrings of the lower-cased markup or text the code looks for
\*   titles      candidate titles in the order <title>, h1, h2, h3
\*   pre         words before the first level1_title heading (all words of a
\*               document without such headings)
BlankDoc ==
    [archived |-> TRUE, fileIdx |-> undefined,
     chapClass |-> "", chapForm |-> "", chapNum |-> undefined,
     headerText |-> "", headerNum |-> undefined,
     partNumCls |-> undefined, partTitleCls |-> "",
     opening |-> "", hasH1 |-> FALSE, keywords |-> {},
     images |-> 0, titles |-> <<>>, pre |-> 0, sections |-> <<>>]

Text(words, title) == [BlankDoc EXCEPT !.pre = words, !.titles = <<title>>]

\* <h1 class="cls">text</h1> as the first heading, then `words - 1` more words
ChapterMarker(cls, form, n, words) ==
    [BlankDoc EXCEPT !.chapClass = cls, !.chapForm = form, !.chapNum = n,
                     !.hasH1 = TRUE,
                     !.headerText = IF form = "bracket" THEN "[" \o ToString(n) \o "]"
                                    ELSE ToString(n),
                     !.headerNum = n, !.pre = words]

\* a file cNN_part_cutM.xhtml
PartFile(idx, pre, sections) ==
    [BlankDoc EXCEPT !.fileIdx = idx, !.pre = pre, !.sections = sections,
                     !.hasH1 = (sections # <<>>), !.titles = <<"Partie">>]

DocWords(doc) == doc.pre + SectionWords(doc.sections)

Mentions(doc, w) == w \in doc.keywords \/ doc.opening = w

(* ---------------------------------------------------------------------- *)
(* Signature Extractor                                                     *)
(* ---------------------------------------------------------------------- *)
\* Map.prototype.get on the PartTitleMap: undefined when the key is absent
NavGet(nav, n) == IF n \in DOMAIN nav THEN nav[n] ELSE NoTitle

PrologueWords == {"prologue", "préface", "avant-propos", "introduction"}
EpilogueWords == {"epilogue", "épilogue", "conclusion", "postface"}
AckWords == {"remerciements", "acknowledgment", "acknowledgments", "thanks"}
BiblioWords == {"bibliographie", "bibliography", "références", "references"}
IndexWords == {"index", "table des matières alphabétique"}

IsDateLike(t) == t \in {"Friday 22 November 2013"}
IsTimeLike(t) == t \in {"Sept mois plus tard"}

\* the number of the <h1 class="chapn"> / <h1 class="chap_n"> heading
CalibreChapterNumber(doc) ==
    IF doc.chapClass \in {"chapn", "chap_n"} /\ doc.chapForm \in {"bare", "bracket"}
    THEN doc.chapNum ELSE undefined

\* the file part number is used as it is
NavigationPartNumber_NoOffset(filePartNumber) == filePartNumber

\* files c05-c12 map to navigation parts 1-8
NavigationPartNumber(filePartNumber) == filePartNumber - 4

\* part number and part title: file name first, then the headings
PartInfo(doc, nav) ==
    LET fromFile ==
            IF doc.fileIdx # undefined
            THEN IF Truthy(NavGet(nav, NavigationPartNumber(doc.fileIdx)))
                 THEN [n |-> NavigationPartNumber(doc.fileIdx),
                       t |-> NavGet(nav, NavigationPartNumber(doc.fileIdx))]
                 ELSE [n |-> doc.fileIdx, t |-> "Part " \o ToString(doc.fileIdx)]
            ELSE [n |-> undefined, t |-> NoTitle]
        fromHeader ==
            IF doc.headerNum # undefined
            THEN IF Truthy(NavGet(nav, doc.headerNum))
                 THEN [n |-> doc.headerNum, t |-> NavGet(nav, doc.headerNum)]
                 ELSE [n |-> fromFile.n, t |-> doc.headerText]
            ELSE fromFile
        fromPartNumber ==
            IF doc.partNumCls # undefined
            THEN IF Truthy(NavGet(nav, doc.partNumCls))
                 THEN [n |-> doc.partNumCls, t |-> NavGet(nav, doc.partNumCls)]
                 ELSE [n |-> doc.partNumCls, t |-> fromHeader.t]
            ELSE fromHeader
        fromPartTitle ==
            IF doc.partTitleCls # ""
               /\ (~Truthy(fromPartNumber.t)
                   \/ (IF fromPartNumber.n = undefined THEN 0 ELSE fromPartNumber.n)
                         \notin DOMAIN nav)
            THEN [n |-> fromPartNumber.n, t |-> doc.partTitleCls]
            ELSE fromPartNumber
    IN  IF Truthy(fromFile.t) THEN fromFile ELSE fromPartTitle

RECURSIVE FirstTitle(_)
\* the first candidate title that is neither date-like nor time-like
FirstTitle(titles) ==
    IF titles = <<>> THEN NoTitle
    ELSE IF Truthy(Head(titles)) /\ ~IsDateLike(Head(titles)) /\ ~IsTimeLike(Head(titles))
         THEN Head(titles)
         ELSE FirstTitle(Tail(titles))

DocTitle(doc, chapterNumber) ==
    LET isEpilogue == doc.opening \in EpilogueWords
                      \/ (doc.hasH1 /\ Mentions(doc, "épilogue"))
        isPrologue == doc.opening \in PrologueWords
                      \/ (doc.hasH1 /\ Mentions(doc, "prologue"))
    IN  IF chapterNumber # undefined THEN ToString(chapterNumber)
        ELSE IF isEpilogue THEN "Epilogue"
        ELSE IF isPrologue THEN "Prologue"
        ELSE FirstTitle(doc.titles)

DocPatterns(doc, chapterNumber, partNumber, wordCount) ==
    {p \in {"title-page", "copyright", "epigraph", "toc", "dedication", "prologue",
            "epilogue", "chapter-marker", "acknowledgment", "bibliography", "index",
            "calibre-chapter-marker", "calibre-numbered-chapter", "epilogue-header",
            "prologue-header", "part-header", "part-marker", "image-heavy"} :
        CASE p = "title-page" -> doc.keywords \cap {"pagetitre", "auteur_ident"} # {}
          [] p = "copyright"  -> doc.keywords \cap {"copyright", "pagecopyright"} # {}
          [] p = "epigraph"   -> doc.keywords \cap {"exergues", "epigraph"} # {}
          [] p = "toc"        -> doc.keywords \cap {"toc", "table", "sommaire"} # {}
          [] p = "dedication" -> doc.keywords \cap {"dedication", "dédicace"} # {}
          [] p = "prologue"   -> doc.opening \in PrologueWords
          [] p = "epilogue"   -> doc.opening \in EpilogueWords
          [] p = "chapter-marker" ->
                 \/ doc.keywords \cap {"chapitre", "chapter"} # {}
                 \/ \E k \in 1..Len(doc.sections) :
                        doc.sections[k].form \in {"chapitre", "named"}
          [] p = "acknowledgment" -> doc.opening \in AckWords
          [] p = "bibliography"   -> doc.opening \in BiblioWords
          [] p = "index"          -> doc.opening \in IndexWords
          [] p = "calibre-chapter-marker"   -> doc.chapClass = "chapn"
          [] p = "calibre-numbered-chapter" -> chapterNumber # undefined
          [] p = "epilogue-header" -> doc.hasH1 /\ Mentions(doc, "épilogue")
          [] p = "prologue-header" -> doc.hasH1 /\ Mentions(doc, "prologue")
          [] p = "part-header"     -> partNumber # undefined
          [] p = "part-marker"     -> doc.partNumCls # undefined \/ doc.partTitleCls # ""
          [] OTHER                 -> doc.images > 0 /\ wordCount < 20}

analyzeContent(doc, nav) ==
    LET chapterNumber == CalibreChapterNumber(doc)
        part == PartInfo(doc, nav)
        wordCount == DocWords(doc)
    IN  [title |-> DocTitle(doc, chapterNumber),
         hasSubstantialText |-> wordCount > 50,
         patterns |-> DocPatterns(doc, chapterNumber, part.n, wordCount),
         wordCount |-> wordCount,
         chapterNumber |-> chapterNumber,
         partNumber |-> part.n,
         partTitle |-> part.t]

\* the analysis of a spine item whose href resolves to no entry
EmptyAnalysis ==
    [title |-> NoTitle, hasSubstantialText |-> FALSE, patterns |-> {}, wordCount |-> 0,
     chapterNumber |-> undefined, partNumber |-> undefined, partTitle |-> NoTitle]

(* ---------------------------------------------------------------------- *)
(* Internal Chapter Splitter                                               *)
(* ---------------------------------------------------------------------- *)
IsBareNumeral(sec) == sec.form = "bare"

\* namedTitles.length >= numberedTitles.length / 2
FilterNumbered_AtLeastHalf(sections) ==
    LET numbered == Len(SelectIdx(sections, IsBareNumeral, 1))
        named == Len(sections) - numbered
    IN  2 * named >= numbered

\* namedTitles.length > numberedTitles.length / 2
FilterNumbered(sections) ==
    LET numbered == Len(SelectIdx(sections, IsBareNumeral, 1))
        named == Len(sections) - numbered
    IN  2 * named > numbered

\* the negative lookahead (?!\d+\.) of the second split pattern
StartsWithNumeralDot(sec) == sec.form \in {"bare", "numdot"}

NotNumeralDot(sec) == ~StartsWithNumeralDot(sec)

AnySection(sec) == TRUE

\* indices of the headings the document is split on
SplitPoints(sections) ==
    IF FilterNumbered(sections)
    THEN SelectIdx(sections, NotNumeralDot, 1)
    ELSE SelectIdx(sections, AnySection, 1)

\* words of the slice between split heading `from` and the next split heading
SliceWords(sections, from, to) ==
    sections[from].words
    + SeqSum([k \in 1..(to - from - 1) |->
                HeadingWords(sections[from + k]) + sections[from + k].words])

\* title.match(/^\d+/) || /chapitre\s+(\d+)/i || /chapter\s+(\d+)/i, then
\* parseInt(numberMatch[0])
SplitChapterNumber(sec, chapterIndex) ==
    CASE sec.form \in {"bare", "numdot", "num"} -> sec.num
      [] sec.form = "chapitre" -> NaN
      [] OTHER -> chapterIndex

extractInternalChapters(doc, item, partNumber, partTitle) ==
    LET splits == SplitPoints(doc.sections)
    IN  IF doc.sections = <<>> THEN <<>>
        ELSE [k \in 1..Len(splits) |->
                LET sec == doc.sections[splits[k]]
                    next == IF k < Len(splits) THEN splits[k + 1]
                            ELSE Len(doc.sections) + 1
                    chapterNumber == SplitChapterNumber(sec, k)
                IN  [id |-> item.id \o "_ch" \o NumStr(chapterNumber),
                     href |-> item.href,
                     title |-> HeadingText(sec),
                     chapterNumber |-> chapterNumber,
                     partNumber |-> partNumber,
                     partTitle |-> partTitle,
                     content |-> SliceWords(doc.sections, splits[k], next)]]

(* ---------------------------------------------------------------------- *)
(* Inputs                                                                  *)
(* ---------------------------------------------------------------------- *)
TitlePage == [Text(10, "Titre") EXCEPT !.keywords = {"pagetitre"}]
ShortText == Text(30, "Note")
BodyText == Text(300, "Recit")
\* <h1>Prologue</h1> alone on its page
PrologueHeader ==
    [BlankDoc EXCEPT !.opening = "prologue", !.hasH1 = TRUE,
                     !.headerText = "Prologue", !.pre = 5]
\* <h1>Prologue</h1> followed by the prologue itself
PrologueWithText == [PrologueHeader EXCEPT !.pre = 150]
\* the word Prologue, then <h1 class="chapn">7</h1>
PrologueNumbered ==
    [ChapterMarker("chapn", "bare", 7, 2) EXCEPT !.opening = "prologue"]
Marker12 == ChapterMarker("chapn", "bare", 12, 5)
Marker3 == ChapterMarker("chap_n", "bracket", 3, 5)
\* <h1>Épilogue</h1> alone on its page
EpilogueHeader ==
    [BlankDoc EXCEPT !.opening = "épilogue", !.hasH1 = TRUE,
                     !.headerText = "Épilogue", !.pre = 1]
\* text opening with "Conclusion" that holds <h1 class="chapn">9</h1>
EpilogueNumbered ==
    [ChapterMarker("chapn", "bare", 9, 250) EXCEPT !.opening = "conclusion"]
Thanks == [Text(250, "Remerciements") EXCEPT !.opening = "remerciements"]
NotArchived == [BlankDoc EXCEPT !.archived = FALSE]

PartHeader5 == PartFile(5, 10, <<>>)
PartBody5 == PartFile(5, 250, <<>>)
PartSplit5 == PartFile(5, 30, <<Sec("bare", 1, 120), Sec("bare", 2, 150)>>)
PartSmall6 == PartFile(6, 150, <<>>)
\* two headings in a row: the first chapter has no body
PartSplit7 == PartFile(7, 0, <<Sec("named", 0, 0), Sec("named", 0, 300)>>)

MediumText == Text(150, "Note")
\* a page with an <h1> that mentions the épilogue further down
EpilogueMention ==
    [BlankDoc EXCEPT !.hasH1 = TRUE, !.headerText = "Fin", !.keywords = {"épilogue"},
                     !.titles = <<"Fin">>, !.pre = 30]
Marker2 == ChapterMarker("chapn", "bare", 2, 5)
Marker100 == ChapterMarker("chapn", "bare", 4, 100)
Marker150 == ChapterMarker("chapn", "bare", 5, 150)
\* a whole chapter under its chapter-number heading
Chapter6 == ChapterMarker("chapn", "bare", 6, 300)
\* headings "1.", "2." and "Chapitre Trois" in a file c07_part_cut2.xhtml
PartThreeHeadings ==
    PartFile(7, 0, <<Sec("bare", 1, 100), Sec("bare", 2, 100), Sec("named", 0, 100)>>)

\* a file c03_part_cut1.xhtml
PartBody3 == PartFile(3, 250, <<>>)

Docs ==
    {TitlePage, ShortText, BodyText, PrologueHeader, PrologueWithText,
     PrologueNumbered, Marker12, Marker3, EpilogueHeader, EpilogueNumbered,
     Thanks, PartBody5}

PartDocs ==
    {PartHeader5, PartBody5, PartSplit5, PartSmall6, PartSplit7, BodyText, Marker12,
     PartThreeHeadings, PartBody3}

(* ---------------------------------------------------------------------- *)
(* Part-Title Resolver                                                     *)
(* ---------------------------------------------------------------------- *)
\* a link <a href="...">Partie n. text</a> of a navigation document
NavLink(n, text) == [partNumber |-> n, text |-> text]

\* the links of the navigation documents, in the order the entries are read;
\* the last link of a part number wins
extractPartTitlesFromNavigation(links) ==
    [n \in {links[k].partNumber : k \in 1..Len(links)} |->
        LET last == SetMax({k \in 1..Len(links) : links[k].partNumber = n})
        IN  "Partie " \o ToString(n) \o ". " \o links[last].text]

EmptyNav == [n \in {} |-> NoTitle]

\* no navigation document, or one that holds the link "Partie 3. La Chute"
NavDocs == {<<>>, <<NavLink(3, "La Chute")>>}

NavMaps == {extractPartTitlesFromNavigation(links) : links \in NavDocs}

SpineEntry(i) == [id |-> "id" \o ToString(i), href |-> "f" \o ToString(i) \o ".xhtml"]

(* ---------------------------------------------------------------------- *)
(* State                                                                   *)
(* ---------------------------------------------------------------------- *)
VARIABLES
    spine,                 \* the SpineEntry list, in reading order
    entries,               \* entries[i]: the document spine[i].href resolves to
    navigationPartTitles,  \* the PartTitleMap
    pc,                    \* the block of classifyEpubContent to run next
    settled,               \* spine positions whose analysis promise has settled
    spineWithAnalysis,
    mainContentStart,
    mainContentEnd,
    mainContentItems,
    prologueFound,
    isMultipartBook,
    chapterItems,
    classification,
    run,                   \* 1 for the first run of the program on the input, 2 for the second
    firstClassification,   \* the Classification the first run returned
    notes                  \* the writes of note files into the book directory, in order

vars == <<spine, entries, navigationPartTitles, pc, settled, spineWithAnalysis,
          mainContentStart, mainContentEnd, mainContentItems, prologueFound,
          isMultipartBook, chapterItems, classification, run, firstClassification, notes>>

N == Len(spine)

\* entries.find(e => e.fileName.includes(href) && !e.isDirectory)
EntryIndex(href) == CHOOSE i \in 1..N : spine[i].href = href
HasEntry(href) == entries[EntryIndex(href)].archived
FindEntry(href) == entries[EntryIndex(href)]

Brief(item, title) == [id |-> item.id, href |-> item.href, title |-> title]

Chapter(id, href, title, chapterNumber, partNumber, partTitle, content) ==
    [id |-> id, href |-> href, title |-> title, chapterNumber |-> chapterNumber,
     partNumber |-> partNumber, partTitle |-> partTitle, content |-> content]

EmptyClassification ==
    [frontMatter |-> <<>>, prologue |-> <<>>, chapters |-> <<>>,
     epilogue |-> <<>>, backMatter |-> <<>>]

\* the state in which classifyEpubContent starts on a spine of n items
Entered(n) ==
    /\ spineWithAnalysis = [i \in 1..n |-> <<>>]
    /\ pc = IF n = 0 THEN "boundary" ELSE "analyze"
    /\ settled = {}
    /\ mainContentStart = 0
    /\ mainContentEnd = 0
    /\ mainContentItems = <<>>
    /\ prologueFound = FALSE
    /\ isMultipartBook = FALSE
    /\ chapterItems = <<>>
    /\ classification = EmptyClassification
    /\ notes = <<>>

InitFrom(docs) ==
    /\ \E n \in 0..MaxSpine :
         /\ entries \in [1..n -> docs]
         /\ spine = [i \in 1..n |-> SpineEntry(i - 1)]
         /\ Entered(n)
    /\ navigationPartTitles \in NavMaps
    /\ run = 1
    /\ firstClassification = EmptyClassification

Init == InitFrom(Docs)

(* ---------------------------------------------------------------------- *)
(* Spine analysis: one promise per spine item                              *)
(* ---------------------------------------------------------------------- *)
\* originalIndex counts the promises settled so far
AnalyzedItem_SettleCount(i) ==
    [id |-> spine[i].id, href |-> spine[i].href,
     analysis |-> IF entries[i].archived
                  THEN analyzeContent(entries[i], navigationPartTitles)
                  ELSE EmptyAnalysis,
     originalIndex |-> Cardinality(settled)]

AnalyzedItem(i) ==
    [id |-> spine[i].id, href |-> spine[i].href,
     analysis |-> IF entries[i].archived
                  THEN analyzeContent(entries[i], navigationPartTitles)
                  ELSE EmptyAnalysis,
     originalIndex |-> i - 1]

\* the values are stored in the order in which the promises settle
Settle_InCompletionOrder(results, i, value) ==
    [results EXCEPT ![Cardinality(settled) + 1] = value]

\* Promise.all stores the value of the i-th promise at position i
Settle(results, i, value) == [results EXCEPT ![i] = value]

AnalyzeItem(i) ==
    /\ pc = "analyze"
    /\ i \in 1..N \ settled
    /\ settled' = settled \cup {i}
    /\ spineWithAnalysis' = Settle(spineWithAnalysis, i, AnalyzedItem(i))
    /\ pc' = IF settled' = 1..N THEN "boundary" ELSE "analyze"
    /\ UNCHANGED <<spine, entries, navigationPartTitles, run, firstClassification, notes, mainContentStart,
                   mainContentEnd, mainContentItems, prologueFound, isMultipartBook,
                   chapterItems, classification>>

(* ---------------------------------------------------------------------- *)
(* Boundary Classifier                                                     *)
(* ---------------------------------------------------------------------- *)
BoundaryWindow == 10
HeaderWindow == 3

FrontMatterTags ==
    {"title-page", "copyright", "epigraph", "toc", "dedication", "image-heavy"}
BackMatterTags ==
    {"epilogue", "acknowledgment", "bibliography", "index", "thanks", "references"}

StartsMainContent(item) ==
    \/ /\ item.analysis.hasSubstantialText
       /\ item.analysis.wordCount > 200
       /\ item.analysis.patterns \cap FrontMatterTags = {}
    \/ "prologue" \in item.analysis.patterns
    \/ "prologue-header" \in item.analysis.patterns

EndsMainContent(item) ==
    \/ /\ item.analysis.hasSubstantialText
       /\ item.analysis.wordCount > 200
       /\ item.analysis.patterns \cap BackMatterTags = {}
    \/ "epilogue" \in item.analysis.patterns

\* the scan runs over the whole spine
FrontBoundary_WholeSpine(items) ==
    LET hits == {i \in 0..(Len(items) - 1) : StartsMainContent(items[i + 1])}
    IN  IF hits = {} THEN 0 ELSE SetMin(hits)

\* for (i = 0; i < Math.min(10, totalItems); i++) ... break
FrontBoundary(items) ==
    LET hits == {i \in 0..(Min2(BoundaryWindow, Len(items)) - 1) :
                    StartsMainContent(items[i + 1])}
    IN  IF hits = {} THEN 0 ELSE SetMin(hits)

\* the scan runs down to mainContentStart
BackBoundary_DownToStart(items, start) ==
    LET hits == {i \in start..(Len(items) - 1) : EndsMainContent(items[i + 1])}
    IN  IF hits = {} THEN Len(items) - 1 ELSE SetMax(hits)

\* for (i = totalItems - 1; i >= Math.max(totalItems - 10, mainContentStart); i--)
BackBoundary(items, start) ==
    LET hits == {i \in Max2(Len(items) - BoundaryWindow, start)..(Len(items) - 1) :
                    EndsMainContent(items[i + 1])}
    IN  IF hits = {} THEN Len(items) - 1 ELSE SetMax(hits)

FindBoundaries ==
    /\ pc = "boundary"
    /\ LET start == FrontBoundary(spineWithAnalysis)
           end == BackBoundary(spineWithAnalysis, start)
       IN  /\ mainContentStart' = start
           /\ mainContentEnd' = end
           /\ classification' =
                [classification EXCEPT
                   !.frontMatter =
                      [k \in 1..start |->
                         Brief(spineWithAnalysis[k], spineWithAnalysis[k].analysis.title)],
                   !.backMatter =
                      [k \in 1..(N - 1 - end) |->
                         Brief(spineWithAnalysis[end + 1 + k],
                               spineWithAnalysis[end + 1 + k].analysis.title)]]
           /\ mainContentItems' = SubSeq(spineWithAnalysis, start + 1, end + 1)
    /\ pc' = "prologue"
    /\ UNCHANGED <<spine, entries, navigationPartTitles, run, firstClassification, notes, settled, spineWithAnalysis,
                   prologueFound, isMultipartBook, chapterItems>>

\* any item passes
Substantial100_Any(item) == TRUE

Substantial100(item) ==
    item.analysis.hasSubstantialText /\ item.analysis.wordCount > 100

\* positions (0-based) among the first three main-content items of the
\* prologue headers that the loop does not skip with `continue`
PrologueHeaderHits(items) ==
    {i \in 0..(Min2(HeaderWindow, Len(items)) - 1) :
        /\ "prologue-header" \in items[i + 1].analysis.patterns
        /\ \/ (i + 1 < Len(items) /\ Substantial100(items[i + 2]))
           \/ Substantial100(items[i + 1])}

\* only the prologue is spliced out, the header stays in the main content
HeaderPair_HeaderKept(items, i) ==
    [prologue |-> <<Brief(items[i + 2], "Prologue")>>, rest |-> Splice(items, i + 1, 1)]

\* header at 0-based position i followed by the prologue: the prologue and the
\* main content left after mainContentItems.splice(i, 2)
HeaderPair(items, i) ==
    [prologue |-> <<Brief(items[i + 2], "Prologue")>>, rest |-> Splice(items, i, 2)]

\* title given to a prologue resolved through the plain prologue tag
PrologueFallbackTitle(item) ==
    IF Truthy(item.analysis.title) THEN item.analysis.title ELSE "Prologue"

ResolvePrologue ==
    /\ pc = "prologue"
    /\ LET items == mainContentItems
           hits == PrologueHeaderHits(items)
           i == SetMin(hits)
       IN  IF hits # {}
           THEN /\ prologueFound' = TRUE
                /\ IF i + 1 < Len(items) /\ Substantial100(items[i + 2])
                   THEN /\ classification' =
                             [classification EXCEPT
                                !.prologue = HeaderPair(items, i).prologue]
                        /\ mainContentItems' = HeaderPair(items, i).rest
                   ELSE /\ classification' =
                             [classification EXCEPT
                                !.prologue = <<Brief(items[i + 1], "Prologue")>>]
                        /\ mainContentItems' = Splice(items, i, 1)
           ELSE /\ prologueFound' = FALSE
                /\ IF items # <<>> /\ "prologue" \in items[1].analysis.patterns
                   THEN /\ classification' =
                             [classification EXCEPT
                                !.prologue =
                                   <<Brief(items[1], PrologueFallbackTitle(items[1]))>>]
                        /\ mainContentItems' = Tail(items)
                   ELSE UNCHANGED <<classification, mainContentItems>>
    /\ pc' = "epilogue"
    /\ UNCHANGED <<spine, entries, navigationPartTitles, run, firstClassification, notes, settled, spineWithAnalysis,
                   mainContentStart, mainContentEnd, isMultipartBook, chapterItems>>

\* the scan runs over the whole main content
EpilogueHeaderHits_WholeList(items) ==
    {i \in 0..(Len(items) - 1) : "epilogue-header" \in items[i + 1].analysis.patterns}

\* positions (0-based) of the epilogue headers among the last three items
EpilogueHeaderHits(items) ==
    {i \in (Len(items) - HeaderWindow)..(Len(items) - 1) :
        i >= 0 /\ "epilogue-header" \in items[i + 1].analysis.patterns}

\* title given to an epilogue resolved through the plain epilogue tag
EpilogueFallbackTitle(item) == item.analysis.title

ResolveEpilogue ==
    /\ pc = "epilogue"
    /\ LET items == mainContentItems
           hits == EpilogueHeaderHits(items)
           i == SetMin(hits)
       IN  IF hits # {}
           THEN IF i + 1 < Len(items)
                THEN /\ classification' =
                          [classification EXCEPT
                             !.epilogue = <<Brief(items[i + 2], "Epilogue")>>]
                     /\ mainContentItems' = Splice(items, i, 2)
                ELSE /\ classification' =
                          [classification EXCEPT
                             !.epilogue = <<Brief(items[i + 1], "Epilogue")>>]
                     /\ mainContentItems' = Splice(items, i, 1)
           ELSE IF items # <<>> /\ "epilogue" \in items[Len(items)].analysis.patterns
                THEN /\ classification' =
                          [classification EXCEPT
                             !.epilogue =
                                <<Brief(items[Len(items)],
                                        EpilogueFallbackTitle(items[Len(items)]))>>]
                     /\ mainContentItems' = SubSeq(items, 1, Len(items) - 1)
                ELSE UNCHANGED <<classification, mainContentItems>>
    /\ pc' = "assemble"
    /\ UNCHANGED <<spine, entries, navigationPartTitles, run, firstClassification, notes, settled, spineWithAnalysis,
                   mainContentStart, mainContentEnd, prologueFound, isMultipartBook,
                   chapterItems>>

(* ---------------------------------------------------------------------- *)
(* Chapter Assembler                                                       *)
(* ---------------------------------------------------------------------- *)
RECURSIVE Flatten(_)
Flatten(ss) == IF ss = <<>> THEN <<>> ELSE Head(ss) \o Flatten(Tail(ss))

RECURSIVE Distinct(_)
\* the distinct elements of s, in order of first occurrence (Map key order)
Distinct(s) ==
    IF s = <<>> THEN <<>>
    ELSE LET init == Distinct(SubSeq(s, 1, Len(s) - 1))
             last == s[Len(s)]
         IN  IF \E k \in 1..Len(init) : init[k] = last THEN init ELSE Append(init, last)

RECURSIVE SortAscending(_)
\* Array.from(keys).sort((a, b) => a - b) of a set of distinct numbers
SortAscending(S) ==
    IF S = {} THEN <<>> ELSE <<SetMin(S)>> \o SortAscending(S \ {SetMin(S)})

PartHeaders(items) ==
    SelectSeq(items, LAMBDA item : "part-header" \in item.analysis.patterns)

\* an item of the part with at least this many words is a content file
ContentFileWords == 100

ContentFiles(partHeaders, originalPartNum) ==
    SelectSeq(partHeaders,
              LAMBDA item : /\ item.analysis.partNumber = originalPartNum
                            /\ ~(item.analysis.wordCount < ContentFileWords))

\* the last short item of the part, else the first item of the part
PartGroupHeader(partHeaders, originalPartNum) ==
    LET ofPart == SelectSeq(partHeaders,
                            LAMBDA item : item.analysis.partNumber = originalPartNum)
        short == SelectSeq(ofPart,
                           LAMBDA item : item.analysis.wordCount < ContentFileWords)
    IN  IF short # <<>> THEN short[Len(short)] ELSE ofPart[1]

\* original part numbers of the parts that have content files, ascending
PartsWithContent(partHeaders) ==
    SortAscending({partHeaders[k].analysis.partNumber : k \in
                     {j \in 1..Len(partHeaders) :
                        ContentFiles(partHeaders, partHeaders[j].analysis.partNumber) # <<>>}})

\* the raw part number is kept
PartNumberMapping_Raw(partHeaders, originalPartNum) == originalPartNum

\* partNumberMapping.get(originalPartNum)
PartNumberMapping(partHeaders, originalPartNum) ==
    LET sorted == PartsWithContent(partHeaders)
    IN  IF \E k \in 1..Len(sorted) : sorted[k] = originalPartNum
        THEN CHOOSE k \in 1..Len(sorted) : sorted[k] = originalPartNum
        ELSE undefined

\* the chapter keeps the raw part number of its file
WholeFileChapter_RawPart(item, partNumber, partTitle) ==
    Chapter(item.id, item.href,
            IF Truthy(item.analysis.title) THEN item.analysis.title ELSE "1",
            1, item.analysis.partNumber, partTitle, undefined)

\* a content file without internal chapters is one chapter
WholeFileChapter(item, partNumber, partTitle) ==
    Chapter(item.id, item.href,
            IF Truthy(item.analysis.title) THEN item.analysis.title ELSE "1",
            1, partNumber, partTitle, undefined)

\* chapters of one content file of a part
ContentFileChapters(item, partNumber, partTitle) ==
    IF ~item.analysis.hasSubstantialText \/ item.analysis.wordCount < 200 THEN <<>>
    ELSE IF ~HasEntry(item.href) THEN <<>>
    ELSE LET internalChapters ==
                 extractInternalChapters(FindEntry(item.href), item, partNumber, partTitle)
         IN  IF Len(internalChapters) > 0 THEN internalChapters
             ELSE <<WholeFileChapter(item, partNumber, partTitle)>>

MultipartChapters(items) ==
    LET partHeaders == PartHeaders(items)
        originalParts == Distinct([k \in 1..Len(partHeaders) |->
                                     partHeaders[k].analysis.partNumber])
        PartChapters(originalPartNum) ==
            LET partNumber == PartNumberMapping(partHeaders, originalPartNum)
                header == PartGroupHeader(partHeaders, originalPartNum)
                partTitle == IF Truthy(header.analysis.partTitle)
                             THEN header.analysis.partTitle
                             ELSE "Part " \o ToString(partNumber)
                contentFiles == ContentFiles(partHeaders, originalPartNum)
            IN  Flatten([k \in 1..Len(contentFiles) |->
                           ContentFileChapters(contentFiles[k], partNumber, partTitle)])
    IN  Flatten([k \in 1..Len(originalParts) |-> PartChapters(originalParts[k])])

AssembleMultipart ==
    /\ pc = "assemble"
    /\ PartHeaders(mainContentItems) # <<>>
    /\ isMultipartBook' = TRUE
    /\ chapterItems' = MultipartChapters(mainContentItems)
    /\ pc' = "filter"
    /\ UNCHANGED <<spine, entries, navigationPartTitles, run, firstClassification, notes, settled, spineWithAnalysis,
                   mainContentStart, mainContentEnd, mainContentItems, prologueFound,
                   classification>>

\* chapterMap.get(n): the last item that set the key n
ChapterMapGet(items, chapterNum) ==
    LET hits == {k \in 1..Len(items) : items[k].analysis.chapterNumber = chapterNum}
    IN  items[SetMax(hits)]

IsJustMarker(markerItem) ==
    /\ markerItem.analysis.wordCount < 200
    /\ "calibre-chapter-marker" \in markerItem.analysis.patterns

\* unNumberedItems.find(...): position in the pool of the body of a marker, 0 if none
NextContentIndex(pool, markerItem) ==
    LET hits == {k \in 1..Len(pool) :
                    /\ pool[k].originalIndex > markerItem.originalIndex
                    /\ pool[k].analysis.hasSubstantialText
                    /\ pool[k].analysis.wordCount > 200}
    IN  IF hits = {} THEN 0 ELSE SetMin(hits)

MarkerTitle(markerItem, chapterNum) ==
    IF Truthy(markerItem.analysis.title) THEN markerItem.analysis.title
    ELSE "[" \o ToString(chapterNum) \o "]"

\* the chapter points to the marker instead of the body
PairedChapter_MarkerSource(markerItem, nextContentItem, chapterNum) ==
    Chapter(markerItem.id, markerItem.href,
            MarkerTitle(markerItem, chapterNum), chapterNum, undefined, NoTitle, undefined)

\* the chapter of a pure marker that found its body: the body's id and href,
\* the marker's title and number
PairedChapter(markerItem, nextContentItem, chapterNum) ==
    Chapter(nextContentItem.id, nextContentItem.href,
            MarkerTitle(markerItem, chapterNum), chapterNum, undefined, NoTitle, undefined)

\* the paired body is left in the pool
RemoveFromPool_Kept(pool, found) == pool

\* unNumberedItems.splice(contentIndex, 1)
RemoveFromPool(pool, found) == Splice(pool, found - 1, 1)

\* a marker of exactly 100 words is kept too
MarkerStandsAlone_AtLeast100(markerItem) ==
    markerItem.analysis.hasSubstantialText /\ markerItem.analysis.wordCount >= 100

\* a pure marker without body is a chapter of its own
MarkerStandsAlone(markerItem) ==
    markerItem.analysis.hasSubstantialText /\ markerItem.analysis.wordCount > 100

RECURSIVE NumberedChapters(_, _, _, _)
\* the loop over sortedChapterNumbers; result: the chapters pushed and the
\* unnumbered pool that is left
NumberedChapters(items, numbers, pool, acc) ==
    IF numbers = <<>> THEN [chapters |-> acc, pool |-> pool]
    ELSE LET chapterNum == Head(numbers)
             markerItem == ChapterMapGet(items, chapterNum)
             found == NextContentIndex(pool, markerItem)
         IN  IF IsJustMarker(markerItem)
             THEN IF found # 0
                  THEN NumberedChapters(items, Tail(numbers), RemoveFromPool(pool, found),
                           Append(acc, PairedChapter(markerItem, pool[found], chapterNum)))
                  ELSE IF MarkerStandsAlone(markerItem)
                       THEN NumberedChapters(items, Tail(numbers), pool,
                                Append(acc, Chapter(markerItem.id, markerItem.href,
                                                    MarkerTitle(markerItem, chapterNum),
                                                    chapterNum, undefined, NoTitle, undefined)))
                       ELSE NumberedChapters(items, Tail(numbers), pool, acc)
             ELSE NumberedChapters(items, Tail(numbers), pool,
                      Append(acc, Chapter(markerItem.id, markerItem.href,
                                          markerItem.analysis.title,
                                          chapterNum, undefined, NoTitle, undefined)))

RECURSIVE SortByChapterNumber(_)
\* chapterItems.sort((a, b) => a.chapterNumber - b.chapterNumber), stable
SortByChapterNumber(chapters) ==
    IF chapters = <<>> THEN <<>>
    ELSE LET least == SetMin({chapters[k].chapterNumber : k \in 1..Len(chapters)})
             first == SetMin({k \in 1..Len(chapters) : chapters[k].chapterNumber = least})
         IN  <<chapters[first]>> \o SortByChapterNumber(Splice(chapters, first - 1, 1))

\* Array.from(chapterMap.keys()).sort((a, b) => b - a)
SortedChapterNumbers_Descending(numberedSet) ==
    LET ascending == SortAscending(numberedSet)
    IN  [k \in 1..Len(ascending) |-> ascending[Len(ascending) + 1 - k]]

\* Array.from(chapterMap.keys()).sort((a, b) => a - b)
SortedChapterNumbers(numberedSet) == SortAscending(numberedSet)

\* every unnumbered item with substantial text qualifies
IsAdditionalChapter_Substantial(item) == item.analysis.hasSubstantialText

\* an unnumbered item that is left becomes a sequential chapter
IsAdditionalChapter(item) ==
    item.analysis.hasSubstantialText /\ item.analysis.wordCount > 200

SinglePartChapters(items) ==
    LET numberedSet == {items[k].analysis.chapterNumber : k \in 1..Len(items)}
                          \ {undefined}
        sortedChapterNumbers == SortedChapterNumbers(numberedSet)
        unNumberedItems ==
            SelectSeq(items, LAMBDA item : item.analysis.chapterNumber = undefined)
        numbered == NumberedChapters(items, sortedChapterNumbers, unNumberedItems, <<>>)
        rest == SelectSeq(numbered.pool, IsAdditionalChapter)
        nextChapterNumber == IF numberedSet # {} THEN SetMax(numberedSet) + 1 ELSE 1
    IN  SortByChapterNumber(
            numbered.chapters \o
            [k \in 1..Len(rest) |->
                Chapter(rest[k].id, rest[k].href, rest[k].analysis.title,
                        nextChapterNumber + k - 1, undefined, NoTitle, undefined)])

AssembleSinglePart ==
    /\ pc = "assemble"
    /\ PartHeaders(mainContentItems) = <<>>
    /\ isMultipartBook' = FALSE
    /\ chapterItems' = SinglePartChapters(mainContentItems)
    /\ pc' = "filter"
    /\ UNCHANGED <<spine, entries, navigationPartTitles, run, firstClassification, notes, settled, spineWithAnalysis,
                   mainContentStart, mainContentEnd, mainContentItems, prologueFound,
                   classification>>

(* ---------------------------------------------------------------------- *)
(* Final filter and renumbering                                            *)
(* ---------------------------------------------------------------------- *)
MinChapterWords == 20

\* word count of the re-read source file of a chapter
SourceWords(chapterItem) == DocWords(FindEntry(chapterItem.href))

KeepChapter(chapterItem) ==
    HasEntry(chapterItem.href) /\ SourceWords(chapterItem) > MinChapterWords

FinalFilter ==
    /\ pc = "filter"
    /\ chapterItems' = SelectSeq(chapterItems, KeepChapter)
    /\ pc' = "renumber"
    /\ UNCHANGED <<spine, entries, navigationPartTitles, run, firstClassification, notes, settled, spineWithAnalysis,
                   mainContentStart, mainContentEnd, mainContentItems, prologueFound,
                   isMultipartBook, classification>>

\* the chapters keep the numbers of their markers
Renumbered_Kept(chapters) == chapters

\* validChapterItems.map((item, index) => ({...item, chapterNumber: index + 1}))
Renumbered(chapters) ==
    [k \in 1..Len(chapters) |-> [chapters[k] EXCEPT !.chapterNumber = k]]

Renumber ==
    /\ pc = "renumber"
    /\ classification' =
         [classification EXCEPT
            !.chapters = IF isMultipartBook THEN chapterItems
                         ELSE Renumbered(chapterItems)]
    /\ pc' = "done"
    /\ UNCHANGED <<spine, entries, navigationPartTitles, run, firstClassification, notes, settled, spineWithAnalysis,
                   mainContentStart, mainContentEnd, mainContentItems, prologueFound,
                   isMultipartBook, chapterItems>>

\* the program is run a second time on the same spine, archive and PartTitleMap
RunAgain ==
    /\ pc = "done"
    /\ run = 1
    /\ run' = 2
    /\ firstClassification' = classification
    /\ spineWithAnalysis' = [i \in 1..N |-> <<>>]
    /\ pc' = IF N = 0 THEN "boundary" ELSE "analyze"
    /\ settled' = {}
    /\ mainContentStart' = 0
    /\ mainContentEnd' = 0
    /\ mainContentItems' = <<>>
    /\ prologueFound' = FALSE
    /\ isMultipartBook' = FALSE
    /\ chapterItems' = <<>>
    /\ classification' = EmptyClassification
    /\ UNCHANGED <<spine, entries, navigationPartTitles, notes>>

Next ==
    \/ \E i \in 1..N : AnalyzeItem(i)
    \/ FindBoundaries
    \/ ResolvePrologue
    \/ ResolveEpilogue
    \/ AssembleMultipart
    \/ AssembleSinglePart
    \/ FinalFilter
    \/ Renumber

Spec == Init /\ [][Next]_vars

InitParts == InitFrom(PartDocs)

SpecParts == InitParts /\ [][Next]_vars

RerunDocs ==
    {TitlePage, PrologueHeader, BodyText, Marker12, EpilogueNumbered, PartBody5, PartSplit5}

InitRerun == InitFrom(RerunDocs)

NextRerun == Next \/ RunAgain

SpecRerun == InitRerun /\ [][NextRerun]_vars

(* ---------------------------------------------------------------------- *)
(* Long spines and marker spines                                           *)
(* ---------------------------------------------------------------------- *)
\* the longest run of short pages in a long spine
MaxPadding == 10
\* the longest spine of chapter markers and bodies
MaxPairSpine == 4

SeqsUpTo(S, m) == UNION {[1..n -> S] : n \in 0..m}

\* a book without navigation document whose archive holds the documents docs
InitEntries(docs) ==
    /\ entries = docs
    /\ spine = [i \in 1..Len(docs) |-> SpineEntry(i - 1)]
    /\ Entered(Len(docs))
    /\ navigationPartTitles = EmptyNav
    /\ run = 1
    /\ firstClassification = EmptyClassification

LongDocs ==
    {TitlePage, MediumText, BodyText, PrologueHeader, EpilogueHeader, EpilogueMention,
     Thanks, NotArchived, PartBody5}

\* at most one document, a run of short pages, at most two documents
InitLong ==
    \E head \in SeqsUpTo(LongDocs, 1), k \in 0..MaxPadding, tail \in SeqsUpTo(LongDocs, 2) :
        InitEntries(head \o [j \in 1..k |-> ShortText] \o tail)

\* the callbacks of spine.map hold no await: they run in spine order
AnalyzeNext == pc = "analyze" /\ AnalyzeItem(SetMin((1..N) \ settled))

NextInOrder ==
    \/ AnalyzeNext
    \/ FindBoundaries
    \/ ResolvePrologue
    \/ ResolveEpilogue
    \/ AssembleMultipart
    \/ AssembleSinglePart
    \/ FinalFilter
    \/ Renumber

SpecLong == InitLong /\ [][NextInOrder]_vars

PairDocs ==
    {BodyText, MediumText, Marker2, Marker12, Marker100, Marker150, Chapter6, PartBody5}

InitPairing == \E docs \in SeqsUpTo(PairDocs, MaxPairSpine) : InitEntries(docs)

SpecPairing == InitPairing /\ [][NextInOrder]_vars

(* ---------------------------------------------------------------------- *)
(* One content file with level-1 section-title headings                    *)
(* ---------------------------------------------------------------------- *)
\* the largest number of headings of the file
MaxHeadings == 3

\* headings "1.", "2. Title", "3 Title", "Chapitre 4" and "Chapitre Trois",
\* each followed by 100 words
Headings ==
    {Sec("bare", 1, 100), Sec("numdot", 2, 100), Sec("num", 3, 100),
     Sec("chapitre", 4, 100), Sec("named", 0, 100)}

\* a file c05_part_cut1.xhtml of 200 words before its headings
SplitterDocs == {PartFile(5, 200, sections) : sections \in SeqsUpTo(Headings, MaxHeadings)}

\* a book of one content file, or of one file that belongs to no part
InitSplitter == \E doc \in SplitterDocs \cup {BodyText} : InitEntries(<<doc>>)

SpecSplitter == InitSplitter /\ [][NextInOrder]_vars

TypeOK == pc \in {"analyze", "boundary", "prologue", "epilogue", "assemble", "filter",
                  "renumber", "done", "rendered"}

(* ---------------------------------------------------------------------- *)
(* Properties                                                              *)
(* ---------------------------------------------------------------------- *)
Done == pc = "done"

\* originalIndex of the spine item an output record points to
OriginalIndexOf(x) == EntryIndex(x.href) - 1

Indices(records) == [k \in 1..Len(records) |-> OriginalIndexOf(records[k])]

RECURSIVE SortNumbers(_)
SortNumbers(s) ==
    IF s = <<>> THEN <<>>
    ELSE LET least == SetMin({s[k] : k \in 1..Len(s)})
             first == SetMin({k \in 1..Len(s) : s[k] = least})
         IN  <<least>> \o SortNumbers(Splice(s, first - 1, 1))

NoDuplicates(s) == \A j, k \in 1..Len(s) : j # k => s[j] # s[k]

\* frontMatter ++ [prologue?] ++ chapters in spine order ++ [epilogue?] ++ backMatter,
\* as original indices
Reassembled ==
    Indices(classification.frontMatter) \o Indices(classification.prologue)
    \o SortNumbers(Indices(classification.chapters))
    \o Indices(classification.epilogue) \o Indices(classification.backMatter)

\* C1 as stated: for a single-part input the reassembled output is the spine,
\* every spine item exactly once.
C1_SpineReproduced ==
    (Done /\ ~isMultipartBook) => Reassembled = [k \in 1..N |-> k - 1]

\* C1 amended: for a single-part input no spine item occurs twice in the
\* reassembled output, frontMatter is the spine before mainContentStart and
\* backMatter the spine after mainContentEnd, both in spine order, and the
\* prologue, the chapter sources and the epilogue lie in between; items of the
\* main content may be lost.
C1_NoItemDuplicated ==
    (Done /\ ~isMultipartBook) =>
        /\ NoDuplicates(Reassembled)
        /\ Indices(classification.frontMatter) = [k \in 1..mainContentStart |-> k - 1]
        /\ Indices(classification.backMatter) =
              [k \in 1..(N - 1 - mainContentEnd) |-> mainContentEnd + k]
        /\ \A x \in {OriginalIndexOf(r) : r \in
                        {classification.prologue[k] : k \in 1..Len(classification.prologue)}
                        \cup {classification.chapters[k] : k \in 1..Len(classification.chapters)}
                        \cup {classification.epilogue[k] : k \in 1..Len(classification.epilogue)}} :
              mainContentStart <= x /\ x <= mainContentEnd

\* a single-part run with front matter or a prologue, a paired chapter and a
\* lost item
C1_Witness ==
    /\ Done /\ ~isMultipartBook
    /\ classification.prologue # <<>>
    /\ Len(classification.chapters) >= 1
    /\ Len(Reassembled) < N

\* C2 as stated: front matter precedes the prologue, the prologue precedes
\* every chapter source, every chapter source precedes the epilogue, and the
\* epilogue precedes the back matter, by originalIndex.
C2_PartitionsInSpineOrder ==
    Done =>
        LET front == Indices(classification.frontMatter)
            pro == Indices(classification.prologue)
            chap == Indices(classification.chapters)
            epi == Indices(classification.epilogue)
            back == Indices(classification.backMatter)
            Before(a, b) == \A j \in 1..Len(a), k \in 1..Len(b) : a[j] < b[k]
        IN  /\ Before(front, pro)
            /\ Before(pro, chap)
            /\ Before(chap, epi)
            /\ Before(epi, back)

\* C3: for a single-part input the chapter at position i (0-based) of the
\* output has chapterNumber i + 1.
C3_ContiguousNumbers ==
    (Done /\ ~isMultipartBook) =>
        \A k \in 1..Len(classification.chapters) :
            classification.chapters[k].chapterNumber = k

\* a single-part run of two or more chapters, one of which had another number
\* before the renumbering
C3_Witness ==
    /\ Done /\ ~isMultipartBook
    /\ Len(classification.chapters) >= 2
    /\ \E k \in 1..Len(chapterItems) : chapterItems[k].chapterNumber # k

\* original part numbers of the parts of the residual main content that have
\* a content file of substantial text
SubstantialParts ==
    {mainContentItems[k].analysis.partNumber : k \in
        {j \in 1..Len(mainContentItems) :
            /\ "part-header" \in mainContentItems[j].analysis.patterns
            /\ mainContentItems[j].analysis.wordCount >= 200}}

BodyWords(chapter) ==
    IF chapter.content # undefined THEN chapter.content ELSE SourceWords(chapter)

\* C5 as stated: every chapter of the output has a body of more than 20 words.
C5_ChapterBodiesSubstantial ==
    Done =>
        \A k \in 1..Len(classification.chapters) :
            BodyWords(classification.chapters[k]) > MinChapterWords

\* C6 as stated: no two chapters of the output share a chapterNumber within
\* the same part (at all, for a single-part input).
C6_UniqueChapterNumbers ==
    Done =>
        \A j, k \in 1..Len(classification.chapters) :
            (j # k /\ classification.chapters[j].partNumber
                        = classification.chapters[k].partNumber)
            => classification.chapters[j].chapterNumber
                 # classification.chapters[k].chapterNumber

\* C8 as stated: a prologue is titled "Prologue" and an epilogue "Epilogue".
C8_CanonicalTitles ==
    Done =>
        /\ \A k \in 1..Len(classification.prologue) :
              classification.prologue[k].title = "Prologue"
        /\ \A k \in 1..Len(classification.epilogue) :
              classification.epilogue[k].title = "Epilogue"

\* C7: a second run on the same spine, archive entries and PartTitleMap returns
\* the Classification the first run returned, whatever the order in which the
\* analyses of the two runs settle.
C7_Deterministic ==
    (run = 2 /\ Done) => classification = firstClassification

\* a second run that has finished on a spine of several items, with chapters
C7_Witness ==
    /\ run = 2 /\ Done
    /\ N >= 2
    /\ Len(classification.chapters) >= 1

\* the main content as prologue resolution found it
MainContentAtStart == SubSeq(spineWithAnalysis, mainContentStart + 1, mainContentEnd + 1)

\* hrefs of every record of the output
OutputHrefs ==
    {r.href : r \in
        {classification.frontMatter[k] : k \in 1..Len(classification.frontMatter)}
        \cup {classification.prologue[k] : k \in 1..Len(classification.prologue)}
        \cup {classification.chapters[k] : k \in 1..Len(classification.chapters)}
        \cup {classification.epilogue[k] : k \in 1..Len(classification.epilogue)}
        \cup {classification.backMatter[k] : k \in 1..Len(classification.backMatter)}}

ResidualHrefs == {mainContentItems[k].href : k \in 1..Len(mainContentItems)}

\* the item at 0-based position i of m is a prologue header followed by an
\* item of more than 100 words
HeaderThenContent(m, i) ==
    /\ i + 1 < Len(m)
    /\ "prologue-header" \in m[i + 1].analysis.patterns
    /\ m[i + 2].analysis.wordCount > 100

\* the prologue is the item after the header at position i, the pair has left
\* the main content and the header is nowhere in the output
PrologueIsNextOf(m, i) ==
    /\ classification.prologue = <<Brief(m[i + 2], "Prologue")>>
    /\ m[i + 1].href \notin ResidualHrefs
    /\ m[i + 2].href \notin ResidualHrefs
    /\ m[i + 1].href \notin OutputHrefs

\* C9 as stated: a prologue header among the first 3 main-content items that
\* is followed by an item of more than 100 words makes that item the prologue.
C9_AnyHeaderPairs ==
    Done =>
        \A i \in 0..(Min2(HeaderWindow, Len(MainContentAtStart)) - 1) :
            HeaderThenContent(MainContentAtStart, i)
            => PrologueIsNextOf(MainContentAtStart, i)

\* C9 amended: the first prologue header among the first 3 main-content items
\* that is followed by an item of more than 100 words or has more than 100
\* words itself decides; when it is followed by an item of more than 100
\* words, that item is the prologue, titled "Prologue", both items leave the
\* main content and the header is nowhere in the output.
C9_FirstHeaderPairs ==
    Done =>
        \A i \in 0..(Min2(HeaderWindow, Len(MainContentAtStart)) - 1) :
            (/\ HeaderThenContent(MainContentAtStart, i)
             /\ \A j \in 0..(i - 1) :
                   ~(/\ "prologue-header" \in MainContentAtStart[j + 1].analysis.patterns
                     /\ \/ MainContentAtStart[j + 2].analysis.wordCount > 100
                        \/ MainContentAtStart[j + 1].analysis.wordCount > 100))
            => PrologueIsNextOf(MainContentAtStart, i)

\* a finished run whose second main-content item is a short prologue header
\* followed by a long item
C9_Witness ==
    /\ Done
    /\ HeaderThenContent(MainContentAtStart, 1)
    /\ MainContentAtStart[2].analysis.wordCount < 20
    /\ "prologue-header" \notin MainContentAtStart[1].analysis.patterns

\* the residual main content is a pure chapter-number marker of number n,
\* followed later by an unnumbered item of more than 200 words, and holds no
\* other chapter candidate; the chapter record expected for it
LoneMarkerAndBody(m, b) ==
    /\ m < b
    /\ IsJustMarker(mainContentItems[m])
    /\ mainContentItems[m].analysis.chapterNumber # undefined
    /\ mainContentItems[b].analysis.chapterNumber = undefined
    /\ mainContentItems[b].analysis.wordCount > 200
    /\ \A k \in 1..Len(mainContentItems) \ {m, b} :
          /\ mainContentItems[k].analysis.chapterNumber = undefined
          /\ ~(mainContentItems[k].analysis.wordCount > 200)

\* C10 as stated: the only chapter has the marker's number n and the id and
\* href of the later item.
C10_KeepsMarkerNumber ==
    (Done /\ ~isMultipartBook) =>
        \A m, b \in 1..Len(mainContentItems) :
            LoneMarkerAndBody(m, b) =>
                /\ Len(classification.chapters) = 1
                /\ classification.chapters[1].chapterNumber
                     = mainContentItems[m].analysis.chapterNumber
                /\ classification.chapters[1].id = mainContentItems[b].id
                /\ classification.chapters[1].href = mainContentItems[b].href

\* C10 amended: the only chapter has chapterNumber 1 after the final
\* renumbering (n is kept as its title) and the id and href of the later item.
C10_RenumberedToOne ==
    (Done /\ ~isMultipartBook) =>
        \A m, b \in 1..Len(mainContentItems) :
            LoneMarkerAndBody(m, b) =>
                /\ Len(classification.chapters) = 1
                /\ classification.chapters[1].chapterNumber = 1
                /\ classification.chapters[1].title
                     = ToString(mainContentItems[m].analysis.chapterNumber)
                /\ classification.chapters[1].id = mainContentItems[b].id
                /\ classification.chapters[1].href = mainContentItems[b].href

\* a finished single-part run on a marker of number 12 and its later body
C10_Witness ==
    /\ Done /\ ~isMultipartBook
    /\ \E m, b \in 1..Len(mainContentItems) :
          /\ LoneMarkerAndBody(m, b)
          /\ mainContentItems[m].analysis.chapterNumber = 12
          /\ mainContentItems[m].analysis.wordCount = 5

\* the boundaries have been found
BoundariesFound == pc \notin {"analyze", "boundary"}

\* the hrefs of a list of output records, in order
HrefsOf(records) == [k \in 1..Len(records) |-> records[k].href]

\* the item at 0-based spine index i may open the main content: more than
\* 200 words of substantial text and no front-matter tag, or a prologue tag
OpensMainContent(i) ==
    LET a == spineWithAnalysis[i + 1].analysis
    IN  \/ /\ a.hasSubstantialText
           /\ a.wordCount > 200
           /\ a.patterns \cap {"title-page", "copyright", "epigraph", "toc", "dedication",
                                "image-heavy"} = {}
        \/ a.patterns \cap {"prologue", "prologue-header"} # {}

\* C11: mainContentStart is the smallest index below min(10, N) whose item
\* has substantial text, more than 200 words and no front-matter tag, or
\* carries the prologue or prologue-header tag; it is 0 when there is none.
\* frontMatter is exactly the items of index below mainContentStart, in
\* spine order.
C11_FrontBoundary ==
    BoundariesFound =>
        LET window == 0..(Min2(10, N) - 1)
        IN  /\ (\E i \in window : OpensMainContent(i))
                => /\ mainContentStart \in window
                   /\ OpensMainContent(mainContentStart)
                   /\ \A j \in 0..(mainContentStart - 1) : ~OpensMainContent(j)
            /\ (\A i \in window : ~OpensMainContent(i)) => mainContentStart = 0
            /\ HrefsOf(classification.frontMatter)
                 = [k \in 1..mainContentStart |-> spine[k].href]

\* a title page of 10 words followed by an untagged item of 300 words:
\* mainContentStart is 1 and frontMatter holds the title page
C11_Witness ==
    /\ Done /\ N = 2
    /\ "title-page" \in spineWithAnalysis[1].analysis.patterns
    /\ spineWithAnalysis[1].analysis.wordCount = 10
    /\ spineWithAnalysis[2].analysis.patterns = {}
    /\ spineWithAnalysis[2].analysis.wordCount = 300
    /\ mainContentStart = 1
    /\ HrefsOf(classification.frontMatter) = <<spine[1].href>>

\* the level-1 section-title headings of the document of a main-content item
HeadingsOf(item) ==
    LET sections == FindEntry(item.href).sections
    IN  [k \in 1..Len(sections) |-> HeadingText(sections[k])]

\* the chapter candidates that come from the file of item, in order
ChaptersOfFile(item) == SelectSeq(chapterItems, LAMBDA c : c.href = item.href)

\* the multi-part path has assembled its chapter candidates
MultipartAssembled == pc = "filter" /\ isMultipartBook

\* C12: a content file whose level-1 section-title headings are "1.", "2."
\* and "Chapitre Trois" is split at all three headings: exactly 3 chapters,
\* in document order, with chapterNumber 1, 2 and 3.
C12_ThreeHeadingsThreeChapters ==
    MultipartAssembled =>
        \A k \in 1..Len(mainContentItems) :
            (/\ HasEntry(mainContentItems[k].href)
             /\ HeadingsOf(mainContentItems[k]) = <<"1.", "2.", "Chapitre Trois">>)
            => LET chapters == ChaptersOfFile(mainContentItems[k])
               IN  /\ [j \in 1..Len(chapters) |-> chapters[j].title]
                        = <<"1.", "2.", "Chapitre Trois">>
                   /\ [j \in 1..Len(chapters) |-> chapters[j].chapterNumber] = <<1, 2, 3>>

\* the multi-part path has split a file with the headings "1.", "2." and
\* "Chapitre Trois" that follows another content file
C12_Witness ==
    /\ MultipartAssembled
    /\ Len(mainContentItems) = 2
    /\ HeadingsOf(mainContentItems[2]) = <<"1.", "2.", "Chapitre Trois">>
    /\ Len(ChaptersOfFile(mainContentItems[2])) = 3
    /\ Len(chapterItems) > 3

\* a navigation document holds the link text "Partie n. text"
NavigationHolds(n, text) ==
    \E links \in NavDocs :
        /\ \E k \in 1..Len(links) : links[k] = NavLink(n, text)
        /\ navigationPartTitles = extractPartTitlesFromNavigation(links)

\* the file name of spine item i is c07_part_cutM.xhtml, which the file name
\* convention maps to part 3
NamedAsPartThree(i) == entries[i].archived /\ entries[i].fileIdx = 7

\* C13 as stated: with the link text "Partie 3. La Chute" in a navigation
\* document, a file that the file name convention maps to part 3 has
\* partNumber 3 and partTitle "La Chute".
C13_TitleWithoutPrefix ==
    NavigationHolds(3, "La Chute") =>
        \A i \in settled :
            NamedAsPartThree(i) =>
                /\ spineWithAnalysis[i].analysis.partNumber = 3
                /\ spineWithAnalysis[i].analysis.partTitle = "La Chute"
                /\ spineWithAnalysis[i].analysis.partTitle # "Part 3"

\* C13 amended: such a file has partNumber 3 and the partTitle that the
\* PartTitleMap holds for part 3, "Partie 3. La Chute", never "Part 3".
C13_TitleFromPartTitleMap ==
    NavigationHolds(3, "La Chute") =>
        \A i \in settled :
            NamedAsPartThree(i) =>
                /\ spineWithAnalysis[i].analysis.partNumber = 3
                /\ spineWithAnalysis[i].analysis.partTitle = navigationPartTitles[3]
                /\ spineWithAnalysis[i].analysis.partTitle = "Partie 3. La Chute"
                /\ spineWithAnalysis[i].analysis.partTitle # "Part 3"

\* a file c07_part_cutM.xhtml has been analysed with the link text
\* "Partie 3. La Chute" in the navigation document
C13_Witness ==
    /\ NavigationHolds(3, "La Chute")
    /\ \E i \in settled :
          /\ NamedAsPartThree(i)
          /\ "part-header" \in spineWithAnalysis[i].analysis.patterns
          /\ spineWithAnalysis[i].analysis.partNumber = 3

\* the spine items whose href resolves to no archived document
Unarchived == {i \in 1..N : ~entries[i].archived}

\* C14: a spine item whose href resolves to no archived document gets the
\* empty fingerprint (no tags, 0 words, no title, no chapter or part number),
\* classification goes on to its end, and the item is neither a chapter nor
\* the prologue of the result.
C14_UnarchivedItemIgnored ==
    /\ \A i \in Unarchived \cap settled :
          LET a == spineWithAnalysis[i].analysis
          IN  /\ a.patterns = {} /\ a.wordCount = 0 /\ ~a.hasSubstantialText
              /\ a.title = NoTitle /\ a.partTitle = NoTitle
              /\ a.chapterNumber = undefined /\ a.partNumber = undefined
    /\ (Unarchived # {} /\ ~Done) => ENABLED Next
    /\ Done =>
          \A i \in Unarchived :
              /\ \A k \in 1..Len(classification.chapters) :
                    classification.chapters[k].href # spine[i].href
              /\ \A k \in 1..Len(classification.prologue) :
                    classification.prologue[k].href # spine[i].href

\* a finished run in which an item without archived document follows a
\* prologue header
C14_Witness ==
    /\ Done /\ N >= 2
    /\ 2 \in Unarchived
    /\ "prologue-header" \in spineWithAnalysis[1].analysis.patterns
    /\ mainContentStart = 0 /\ mainContentEnd >= 1

\* no spine item carries a pattern tag, a chapter number or a part number
NoItemTagged ==
    \A i \in 1..N :
        /\ spineWithAnalysis[i].analysis.patterns = {}
        /\ spineWithAnalysis[i].analysis.chapterNumber = undefined
        /\ spineWithAnalysis[i].analysis.partNumber = undefined

SubstantialItem(item) == item.analysis.hasSubstantialText /\ item.analysis.wordCount > 50

Over200Item(item) == item.analysis.wordCount > 200

\* the chapters of the result are exactly the spine items that satisfy P, in
\* spine order, numbered from 1 on
ChaptersAreItems(P(_)) ==
    LET sources == SelectSeq(spineWithAnalysis, P)
    IN  /\ HrefsOf(classification.chapters) = HrefsOf(sources)
        /\ \A k \in 1..Len(classification.chapters) :
              /\ classification.chapters[k].chapterNumber = k
              /\ classification.chapters[k].id = sources[k].id

\* C15 as stated: when no item carries a tag, a chapter number or a part
\* number, there is no prologue and no epilogue and every item with
\* substantial text (more than 50 words) is a chapter, the chapters numbered
\* 1..n in spine order.
C15_SubstantialBecomeChapters ==
    (Done /\ NoItemTagged) =>
        /\ classification.prologue = <<>>
        /\ classification.epilogue = <<>>
        /\ ChaptersAreItems(SubstantialItem)

\* C15 amended: in that case there is no prologue and no epilogue and the
\* chapters are exactly the items of more than 200 words, numbered 1..n in
\* spine order.
C15_Over200BecomeChapters ==
    (Done /\ NoItemTagged) =>
        /\ classification.prologue = <<>>
        /\ classification.epilogue = <<>>
        /\ ChaptersAreItems(Over200Item)

\* a finished run on untagged items: one of 150 words between two of 300
C15_Witness ==
    /\ Done /\ NoItemTagged /\ N = 3
    /\ spineWithAnalysis[1].analysis.wordCount = 300
    /\ spineWithAnalysis[2].analysis.wordCount = 150
    /\ spineWithAnalysis[3].analysis.wordCount = 300
    /\ Len(classification.chapters) = 2

\* the item at 0-based spine index i may close the main content: more than
\* 200 words of substantial text and no back-matter tag, or the epilogue tag
ClosesMainContent(i) ==
    LET a == spineWithAnalysis[i + 1].analysis
    IN  \/ /\ a.hasSubstantialText
           /\ a.wordCount > 200
           /\ a.patterns \cap {"epilogue", "acknowledgment", "bibliography", "index",
                                "thanks", "references"} = {}
        \/ "epilogue" \in a.patterns

\* C16: mainContentEnd is the largest index between
\* max(N - 10, mainContentStart) and N - 1 whose item has substantial text,
\* more than 200 words and no back-matter tag, or carries the epilogue tag;
\* it is N - 1 when there is none.  For N > 0, mainContentStart <=
\* mainContentEnd.  backMatter is exactly the items of index above
\* mainContentEnd, in spine order.
C16_BackBoundary ==
    BoundariesFound =>
        LET window == Max2(N - 10, mainContentStart)..(N - 1)
        IN  /\ (\E i \in window : ClosesMainContent(i))
                => /\ mainContentEnd \in window
                   /\ ClosesMainContent(mainContentEnd)
                   /\ \A j \in (mainContentEnd + 1)..(N - 1) : ~ClosesMainContent(j)
            /\ (\A i \in window : ~ClosesMainContent(i)) => mainContentEnd = N - 1
            /\ N > 0 => mainContentStart <= mainContentEnd
            /\ HrefsOf(classification.backMatter)
                 = [k \in 1..(N - 1 - mainContentEnd) |-> spine[mainContentEnd + 1 + k].href]

\* a finished run on more than 10 items: the first item opens the main
\* content and could close it, but lies before the last 10 items, none of
\* which qualifies
C16_Witness ==
    /\ Done /\ N > 10
    /\ mainContentStart = 0
    /\ ClosesMainContent(0)
    /\ \A i \in (N - 10)..(N - 1) : ~ClosesMainContent(i)
    /\ mainContentEnd = N - 1
    /\ classification.backMatter = <<>>

\* positions (0-based) of the prologue headers among the first 3 items of m
PrologueHeadersIn(m) ==
    {i \in 0..(Min2(3, Len(m)) - 1) : "prologue-header" \in m[i + 1].analysis.patterns}

\* the header at position i of m is skipped: neither the item that follows it
\* nor the header itself has more than 100 words
SkippedHeader(m, i) ==
    /\ ~(i + 1 < Len(m) /\ m[i + 2].analysis.wordCount > 100)
    /\ ~(m[i + 1].analysis.wordCount > 100)

\* C17: when some of the first 3 main-content items carry prologue-header and
\* every one of them is skipped, no prologue is produced; in particular the
\* skipped header is not the prologue.
C17_SkippedHeaderNoPrologue ==
    Done =>
        ((/\ PrologueHeadersIn(MainContentAtStart) # {}
          /\ \A i \in PrologueHeadersIn(MainContentAtStart) :
                SkippedHeader(MainContentAtStart, i))
         => classification.prologue = <<>>)

\* positions (0-based) of the epilogue headers among the last 3 items of m
EpilogueHeadersIn(m) ==
    {i \in Max2(0, Len(m) - 3)..(Len(m) - 1) :
        "epilogue-header" \in m[i + 1].analysis.patterns}

\* the step makes the item at position i of the main content the epilogue
\* and removes the items at the positions gone from the main content
EpilogueBecomes(i, gone) ==
    /\ HrefsOf(classification'.epilogue) = <<mainContentItems[i + 1].href>>
    /\ classification'.epilogue[1].id = mainContentItems[i + 1].id
    /\ mainContentItems'
         = SelectSeq(mainContentItems,
                     LAMBDA item : \A j \in gone : item # mainContentItems[j + 1])

\* the step resolves the epilogue through the plain epilogue tag of the last
\* main-content item, or resolves none
EpilogueByPlainTag ==
    IF mainContentItems # <<>>
       /\ "epilogue" \in mainContentItems[Len(mainContentItems)].analysis.patterns
    THEN EpilogueBecomes(Len(mainContentItems) - 1, {Len(mainContentItems) - 1})
    ELSE /\ classification'.epilogue = <<>>
         /\ mainContentItems' = mainContentItems

\* C18 as stated: an epilogue header among the last 3 main-content items
\* that has an item after it makes that item the epilogue and both leave the
\* main content; when no header has an item after it, the epilogue is the
\* last main-content item exactly when that item carries the plain epilogue
\* tag, and there is none otherwise.
C18_AnyHeaderPairs ==
    [][pc = "epilogue" /\ pc' = "assemble" =>
         LET headers == EpilogueHeadersIn(mainContentItems)
             followed == {i \in headers : i + 1 < Len(mainContentItems)}
         IN  /\ \A i \in followed : EpilogueBecomes(i + 1, {i, i + 1})
             /\ followed = {} => EpilogueByPlainTag]_vars

\* C18 amended: the first epilogue header among the last 3 main-content
\* items decides.  When an item follows it, that item is the epilogue and
\* both leave the main content; when it is the last item, the header itself
\* is the epilogue.  Without a header, the epilogue is the last main-content
\* item exactly when that item carries the plain epilogue tag, and there is
\* none otherwise.
C18_FirstHeaderDecides ==
    [][pc = "epilogue" /\ pc' = "assemble" =>
         LET headers == EpilogueHeadersIn(mainContentItems)
             first == SetMin(headers)
         IN  /\ (headers # {} /\ first + 1 < Len(mainContentItems))
                 => EpilogueBecomes(first + 1, {first, first + 1})
             /\ (headers # {} /\ first + 1 = Len(mainContentItems))
                 => EpilogueBecomes(first, {first})
             /\ headers = {} => EpilogueByPlainTag]_vars

\* the epilogue has been resolved on a main content of more than 3 items: it
\* is the item after an epilogue header, and neither is left in the main
\* content
C18_Witness ==
    /\ pc = "assemble"
    /\ Len(MainContentAtStart) > 3
    /\ classification.prologue = <<>>
    /\ \E i \in 1..(N - 1) :
          /\ "epilogue-header" \in spineWithAnalysis[i].analysis.patterns
          /\ HrefsOf(classification.epilogue) = <<spine[i + 1].href>>
          /\ spine[i].href \notin ResidualHrefs
          /\ spine[i + 1].href \notin ResidualHrefs

\* the single-part path has assembled its chapter candidates
SinglePartAssembled == pc = "filter" /\ ~isMultipartBook

\* positions in the main content of the pure markers that the chapter map
\* holds: fewer than 200 words, tagged calibre-chapter-marker, and the last
\* item of their chapter number
PureMarkers ==
    {k \in 1..Len(mainContentItems) :
        /\ mainContentItems[k].analysis.chapterNumber # undefined
        /\ mainContentItems[k].analysis.wordCount < 200
        /\ "calibre-chapter-marker" \in mainContentItems[k].analysis.patterns
        /\ \A j \in (k + 1)..Len(mainContentItems) :
              mainContentItems[j].analysis.chapterNumber
                # mainContentItems[k].analysis.chapterNumber}

\* hrefs of the chapter candidates of a smaller chapter number than n
TakenBefore(n) ==
    {chapterItems[c].href : c \in {d \in 1..Len(chapterItems) :
                                      chapterItems[d].chapterNumber < n}}

\* positions of the unnumbered items of more than 200 words that come after
\* the marker at position k and are no body of a marker of smaller number
FreeBodies(k) ==
    {j \in (k + 1)..Len(mainContentItems) :
        /\ mainContentItems[j].analysis.chapterNumber = undefined
        /\ mainContentItems[j].analysis.wordCount > 200
        /\ mainContentItems[j].href
             \notin TakenBefore(mainContentItems[k].analysis.chapterNumber)}

\* the chapter candidates of chapter number n
CandidatesNumbered(n) == SelectSeq(chapterItems, LAMBDA c : c.chapterNumber = n)

C21_NumberedItemsAreChapters ==
    SinglePartAssembled =>
        \A k \in 1..Len(mainContentItems) :
            (/\ mainContentItems[k].analysis.chapterNumber # undefined
             /\ ~(/\ mainContentItems[k].analysis.wordCount < 200
                  /\ "calibre-chapter-marker" \in mainContentItems[k].analysis.patterns))
            => \E c \in 1..Len(chapterItems) :
                  /\ chapterItems[c].id = mainContentItems[k].id
                  /\ chapterItems[c].href = mainContentItems[k].href

\* the analysed raw part number of the spine item a chapter candidate
\* comes from
AnalysedPartOf(chapter) == spineWithAnalysis[EntryIndex(chapter.href)].analysis.partNumber

\* raw part numbers of the residual main content that have a content file:
\* an item of that part number with at least 100 words
SurvivingParts ==
    {mainContentItems[k].analysis.partNumber : k \in
        {j \in 1..Len(mainContentItems) :
            /\ mainContentItems[j].analysis.partNumber # undefined
            /\ mainContentItems[j].analysis.wordCount >= 100}}

\* the place of raw part number p among the surviving ones, in increasing
\* order: a one-to-one map of the surviving numbers onto 1..K
RankOfPart(p) == Cardinality({q \in SurvivingParts : q <= p})

\* C22: parts without content file yield no chapter; the surviving raw part
\* numbers are mapped onto 1..K in increasing order, and every chapter of
\* the multi-part path carries the mapped number of the part of its file.
C22_ChaptersCarryRemappedPart ==
    MultipartAssembled =>
        \A c \in 1..Len(chapterItems) :
            /\ AnalysedPartOf(chapterItems[c]) \in SurvivingParts
            /\ chapterItems[c].partNumber = RankOfPart(AnalysedPartOf(chapterItems[c]))

\* two surviving parts that stand in the spine in decreasing order of raw
\* part number: the chapters of the first file carry part 2, those of the
\* second part 1
C22_Witness ==
    /\ MultipartAssembled
    /\ Len(mainContentItems) = 2
    /\ Cardinality(SurvivingParts) = 2
    /\ mainContentItems[1].analysis.partNumber > mainContentItems[2].analysis.partNumber
    /\ \E a, b \in 1..Len(chapterItems) :
          /\ chapterItems[a].href = mainContentItems[1].href
          /\ chapterItems[a].partNumber = 2
          /\ chapterItems[b].href = mainContentItems[2].href
          /\ chapterItems[b].partNumber = 1

\* the fields of a chapter that the Internal Chapter Splitter computes
SplitFields(chapters) ==
    [k \in 1..Len(chapters) |->
        [id |-> chapters[k].id, href |-> chapters[k].href, title |-> chapters[k].title,
         chapterNumber |-> chapters[k].chapterNumber, content |-> chapters[k].content]]

\* the part titles that the items of raw part number p carry, and the
\* placeholder of the mapped part number
TitlesOfPart(p) ==
    {mainContentItems[k].analysis.partTitle : k \in
        {j \in 1..Len(mainContentItems) : mainContentItems[j].analysis.partNumber = p}}
    \cup {"Part " \o ToString(RankOfPart(p))}

\* C23: on the multi-part path a content file of at least 200 words whose
\* document resolves contributes all the chapters the Internal Chapter
\* Splitter returns for it or, when it returns none, one chapter for the
\* whole file with chapterNumber 1; each carries the number and the title of
\* its part.  A file of fewer than 200 words contributes no chapter.
C23_ContentFileChapters ==
    MultipartAssembled =>
        \A k \in 1..Len(mainContentItems) :
            LET item == mainContentItems[k]
                p == item.analysis.partNumber
                chapters == ChaptersOfFile(item)
                split == extractInternalChapters(FindEntry(item.href), item, p, NoTitle)
            IN  p # undefined =>
                    IF item.analysis.wordCount >= 200 /\ HasEntry(item.href)
                    THEN /\ IF split # <<>>
                            THEN SplitFields(chapters) = SplitFields(split)
                            ELSE /\ Len(chapters) = 1
                                 /\ chapters[1].id = item.id
                                 /\ chapters[1].chapterNumber = 1
                         /\ \A c \in 1..Len(chapters) :
                               /\ chapters[c].partNumber = RankOfPart(p)
                               /\ chapters[c].partTitle \in TitlesOfPart(p)
                    ELSE chapters = <<>>

\* a file without level-1 section-title headings, a file with such headings
\* and a file of 150 words, all in one multi-part main content: the first
\* is one chapter, the second is split, the third gives none
C23_Witness ==
    /\ MultipartAssembled
    /\ \E a, b, c \in 1..Len(mainContentItems) :
          /\ FindEntry(mainContentItems[a].href).sections = <<>>
          /\ Len(ChaptersOfFile(mainContentItems[a])) = 1
          /\ Len(FindEntry(mainContentItems[b].href).sections) >= 2
          /\ Len(ChaptersOfFile(mainContentItems[b])) >= 2
          /\ mainContentItems[c].analysis.wordCount = 150
          /\ mainContentItems[c].analysis.partNumber # undefined
          /\ ChaptersOfFile(mainContentItems[c]) = <<>>

\* the headings of a file that are no bare numeral "N."
NotBare(sections) == SelectSeq(sections, LAMBDA sec : sec.form # "bare")

\* the headings the claim retains: without the bare numerals when the other
\* headings are more than twice as many, all of them otherwise
RetainedByRatio(sections) ==
    IF Len(NotBare(sections)) > 2 * (Len(sections) - Len(NotBare(sections)))
    THEN NotBare(sections)
    ELSE sections

\* C24: the bare-numeral headings are left out of the split set exactly when
\* the other headings are more than twice as many; one chapter is emitted
\* for each retained heading, in document order.
C24_SplitSetByRatio ==
    MultipartAssembled =>
        \A k \in 1..Len(mainContentItems) :
            LET item == mainContentItems[k]
                sections == FindEntry(item.href).sections
                retained == RetainedByRatio(sections)
                chapters == ChaptersOfFile(item)
            IN  (sections # <<>> /\ item.analysis.wordCount >= 200)
                => [j \in 1..Len(chapters) |-> chapters[j].title]
                     = [j \in 1..Len(retained) |-> HeadingText(retained[j])]

\* the heading of a file that has the given text
HeadingOf(sections, title) ==
    sections[CHOOSE k \in 1..Len(sections) : HeadingText(sections[k]) = title]

\* C25: the chapterNumber of a chapter of the Internal Chapter Splitter is a
\* positive integer: the leading integer of its title, else the N of
\* "chapitre N" / "chapter N" in the title, else its 1-based position among
\* the splits.
C25_SplitChapterNumbers ==
    MultipartAssembled =>
        \A k \in 1..Len(mainContentItems) :
            LET item == mainContentItems[k]
                sections == FindEntry(item.href).sections
                chapters == ChaptersOfFile(item)
            IN  (sections # <<>> /\ Len(chapters) > 0 /\ chapters[1].content # undefined)
                => \A j \in 1..Len(chapters) :
                      LET sec == HeadingOf(sections, chapters[j].title)
                      IN  /\ chapters[j].chapterNumber > 0
                          /\ chapters[j].chapterNumber
                               = IF sec.form \in {"bare", "numdot", "num", "chapitre"}
                                 THEN sec.num
                                 ELSE j

\* the document of spine item i has a heading of class "chapn" or "chap_n"
\* that holds a bare or a bracketed integer
HasChapterNumberHeading(i) ==
    /\ entries[i].archived
    /\ entries[i].chapClass \in {"chapn", "chap_n"}
    /\ entries[i].chapForm \in {"bare", "bracket"}

\* C26: a document that yields a chapterNumber from a heading of either
\* chapter-number class carries both calibre-chapter-marker and
\* calibre-numbered-chapter, so that a short one is a pure marker.
C26_BothChapterTags ==
    \A i \in settled :
        HasChapterNumberHeading(i) =>
            /\ spineWithAnalysis[i].analysis.chapterNumber = entries[i].chapNum
            /\ {"calibre-chapter-marker", "calibre-numbered-chapter"}
                 \subseteq spineWithAnalysis[i].analysis.patterns
            /\ spineWithAnalysis[i].analysis.wordCount < 200
                 => IsJustMarker(spineWithAnalysis[i])

\* the file name of spine item i follows the part convention
NamedAsPart(i) == entries[i].archived /\ entries[i].fileIdx # undefined

\* two documents with different part indices in their file names have
\* different partNumbers
DifferentIndexDifferentPart ==
    \A i, j \in settled :
        (NamedAsPart(i) /\ NamedAsPart(j) /\ entries[i].fileIdx # entries[j].fileIdx)
        => spineWithAnalysis[i].analysis.partNumber
             # spineWithAnalysis[j].analysis.partNumber

\* C27: the partNumber of a document whose file name follows the part
\* convention is the part index of the file name minus 4, with or without
\* an entry of the PartTitleMap; two such documents with different part
\* indices have different partNumbers.
C27_FixedOffset ==
    /\ \A i \in settled :
          NamedAsPart(i) =>
              spineWithAnalysis[i].analysis.partNumber = entries[i].fileIdx - 4
    /\ DifferentIndexDifferentPart

\* C28: whatever the order in which the analyses complete, the analysed
\* sequence that boundary classification gets holds the item of spine
\* position i at position i with originalIndex i, and the items of the
\* working list keep that originalIndex when others are removed.
C28_OriginalIndexStable ==
    /\ pc # "analyze" =>
          \A i \in 1..N :
              /\ spineWithAnalysis[i].id = spine[i].id
              /\ spineWithAnalysis[i].href = spine[i].href
              /\ spineWithAnalysis[i].originalIndex = i - 1
    /\ \A k \in 1..Len(mainContentItems) :
          /\ spine[mainContentItems[k].originalIndex + 1].href = mainContentItems[k].href
          /\ mainContentItems[k] = spineWithAnalysis[mainContentItems[k].originalIndex + 1]

\* a finished run in which the prologue and its header have left the
\* working list: the first item left stands at spine position 2
C28_Witness ==
    /\ Done
    /\ mainContentStart = 0
    /\ classification.prologue # <<>>
    /\ mainContentItems # <<>>
    /\ mainContentItems[1].originalIndex = 2

\* the hrefs of a list of output records, as a set
HrefSet(records) == {records[k].href : k \in 1..Len(records)}

\* C29: no spine item is in both frontMatter and backMatter; the prologue
\* and the epilogue are different items, neither is in frontMatter or
\* backMatter and neither is the source of a chapter; on the single-part
\* path no spine item is the source of two chapters.
C29_RolesDisjoint ==
    LET front == HrefSet(classification.frontMatter)
        back == HrefSet(classification.backMatter)
        prologue == HrefSet(classification.prologue)
        epilogue == HrefSet(classification.epilogue)
        chapters == HrefSet(classification.chapters)
    IN  /\ front \cap back = {}
        /\ prologue \cap epilogue = {}
        /\ (prologue \cup epilogue) \cap (front \cup back) = {}
        /\ (prologue \cup epilogue) \cap chapters = {}
        /\ ~isMultipartBook =>
              \A j, k \in 1..Len(classification.chapters) :
                  j # k => classification.chapters[j].href # classification.chapters[k].href

\* a finished single-part run with a prologue, a chapter and an epilogue,
\* each from another spine item
C29_Witness ==
    /\ Done /\ ~isMultipartBook
    /\ classification.prologue # <<>>
    /\ classification.chapters # <<>>
    /\ classification.epilogue # <<>>

(* ---------------------------------------------------------------------- *)
(* Rendering: one note file per prologue, chapter and epilogue             *)
(* ---------------------------------------------------------------------- *)
BookTitle == "Book"

\* a number that passes `if (n)`
TruthyNumber(n) == n # undefined /\ n # NaN /\ n # 0

\* The fallback name is the sanitized title: the title of a chapter is its
\* chapterNumber.toString(), a numeral or "NaN", which sanitizing leaves as it is.
NoteFileName(type, title, chapterNumber, partNumber, partTitle) ==
    IF type = "prologue" THEN BookTitle \o " - Prologue.md"
    ELSE IF type = "epilogue" THEN BookTitle \o " - Epilogue.md"
    ELSE IF type = "chapter" /\ TruthyNumber(chapterNumber)
         THEN IF TruthyNumber(partNumber) /\ Truthy(partTitle)
              THEN BookTitle \o " - Part " \o NumStr(partNumber)
                       \o " - Chapter " \o NumStr(chapterNumber) \o ".md"
              ELSE BookTitle \o " - Chapter " \o NumStr(chapterNumber) \o ".md"
         ELSE title \o ".md"

\* one fs.writeFileSync: the file, the document it was made from, and whether
\* the text was the chapter's own content string
Note(type, file, href, inline) ==
    [type |-> type, file |-> file, href |-> href, inline |-> inline]

processChapterWithContent(href, title, type, chapterNumber, partNumber, partTitle) ==
    <<Note(type, NoteFileName(type, title, chapterNumber, partNumber, partTitle), href, TRUE)>>

\* returns without writing when no entry of the archive matches the href
processContentFile(href, title, type, chapterNumber, partNumber, partTitle) ==
    IF HasEntry(href)
    THEN <<Note(type, NoteFileName(type, title, chapterNumber, partNumber, partTitle),
                href, FALSE)>>
    ELSE <<>>

\* `chapter.content` is a non-empty string. A slice between two headings that
\* holds no word is the empty string when nothing separates the headings
\* (emptySlice), and a run of blanks or markup otherwise.
HasContentString(chapter, emptySlice) ==
    /\ chapter.content # undefined
    /\ chapter.content > 0 \/ ~emptySlice

ChapterNotes(chapter, emptySlice) ==
    IF HasContentString(chapter, emptySlice)
    THEN processChapterWithContent(chapter.href, NumStr(chapter.chapterNumber), "chapter",
                                   chapter.chapterNumber, chapter.partNumber,
                                   chapter.partTitle)
    ELSE processContentFile(chapter.href, NumStr(chapter.chapterNumber), "chapter",
                            chapter.chapterNumber, chapter.partNumber, chapter.partTitle)

\* chapterNumber.toString() throws on a chapter without chapterNumber: the
\* loop, and the epilogue after it, stop there
ThrowsAt(chapterList) ==
    {k \in 1..Len(chapterList) : chapterList[k].chapterNumber = undefined}

RenderedChapters(chapterList) ==
    IF ThrowsAt(chapterList) = {} THEN chapterList
    ELSE SubSeq(chapterList, 1, SetMin(ThrowsAt(chapterList)) - 1)

processChapterContent(contentClassification, emptySlice) ==
    LET rendered == RenderedChapters(contentClassification.chapters)
    IN  Flatten([k \in 1..Len(contentClassification.prologue) |->
                    processContentFile(contentClassification.prologue[k].href, "Prologue",
                                       "prologue", undefined, undefined, NoTitle)])
        \o Flatten([k \in 1..Len(rendered) |-> ChapterNotes(rendered[k], emptySlice)])
        \o IF ThrowsAt(contentClassification.chapters) # {} THEN <<>>
           ELSE Flatten([k \in 1..Len(contentClassification.epilogue) |->
                    processContentFile(contentClassification.epilogue[k].href, "Epilogue",
                                       "epilogue", undefined, undefined, NoTitle)])

Render ==
    /\ pc = "done"
    /\ \E emptySlice \in BOOLEAN :
         notes' = processChapterContent(classification, emptySlice)
    /\ pc' = "rendered"
    /\ UNCHANGED <<spine, entries, navigationPartTitles, run, firstClassification, settled,
                   spineWithAnalysis, mainContentStart, mainContentEnd, mainContentItems,
                   prologueFound, isMultipartBook, chapterItems, classification>>

\* a chapter heading the splitter cannot number
PartChapitre4 == PartFile(5, 200, <<Sec("chapitre", 4, 100)>>)

RenderDocs ==
    {PrologueWithText, BodyText, Marker12, EpilogueHeader, PartBody5, PartSplit5,
     PartSplit7, PartChapitre4}

InitRender == InitFrom(RenderDocs)

NextRender == Next \/ Render

SpecRender == InitRender /\ [][NextRender]_vars

Rendered == pc = "rendered"

\* the notes of the chapters, in the order they were written
ChapterNotesWritten == SelectSeq(notes, LAMBDA note : note.type = "chapter")

\* C30: once the book is rendered, every chapter of the chapter list has been
\* written to a note file of its own: there are as many chapter notes as
\* chapters and no two of them have the same file name, for chapters with an
\* inline content string and for chapters resolved through their href alike.
C30_ChapterNotesApart ==
    Rendered =>
        /\ Len(ChapterNotesWritten) = Len(classification.chapters)
        /\ \A j, k \in 1..Len(ChapterNotesWritten) :
               j # k => ChapterNotesWritten[j].file # ChapterNotesWritten[k].file

====
